---- MODULE Spec2Model ----
(***************************************************************************)
(* Model of matcalc/relaxation.py: the TrajectoryObserver (the trajectory  *)
(* recorder) and RelaxCalc (the relaxation driver).                        *)
(*                                                                         *)
(* RelaxCalc.__init__ is the action InitDriver.  RelaxCalc.calc is cut at  *)
(* the points where control leaves the method for a collaborator           *)
(* (structure adaptor, optimizer, observer callback, file system), so that *)
(* the order of its effects and every error exit is a state:               *)
(*   Convert, EnterRedirect, MakeOptimizer, Attach, RunStart, OptStep,     *)
(*   RunEnd, FinalCapture, Save, Finish.                                   *)
(* The calculator, the structure adaptor, the optimizer and the file       *)
(* system are external: each of their calls either succeeds or raises,     *)
(* chosen nondeterministically, and convergence of the optimizer is a      *)
(* nondeterministic choice at every test of the loop condition.            *)
(***************************************************************************)
EXTENDS Integers, Sequences, FiniteSets, TLC

\* ------------------------------------------------------------- bounds
\* largest value of the steps argument (max number of optimizer steps)
MaxSteps == 3
\* largest value of the interval argument
MaxInterval == 3
\* number of distinct input lattices
MaxLattice == 2
\* hard cap on the step counter, above every steps argument
StepCap == 5

\* ------------------------------------------------------------ values
\* Python values of the optimizer argument: a str, None, an Optimizer
\* class (callable: called with the atoms it builds an optimizer), or an
\* already built Optimizer instance (ase Optimizer defines no __call__).
PyStr(s) == [type |-> "str", val |-> s]
PyNone == [type |-> "NoneType", val |-> "None"]
PyClass(c) == [type |-> "class", val |-> c]
PyInstance(c) == [type |-> "instance", val |-> c]

\* the keys of the OPTIMIZERS registry
OptimizerNames ==
    {"FIRE", "BFGS", "LBFGS", "LBFGSLineSearch", "MDMin", "SciPyFminCG",
     "SciPyFminBFGS", "BFGSLineSearch"}

\* OPTIMIZERS.get(name, None)
OPTIMIZERS_get(name) ==
    IF name \in OptimizerNames THEN PyClass(name) ELSE PyNone

\* optimizer arguments tried: registry names, names outside the registry,
\* None, a user-supplied optimizer class, a pre-built optimizer instance
OptimizerArgs ==
    {PyStr(n) : n \in {"FIRE", "BFGS", "SciPyFminCG"}}
      \cup {PyStr("Adam"), PyStr("fire")}
      \cup {PyNone, PyClass("UserOptimizer"), PyInstance("FIRE")}

TrajFiles == {"None", "traj.pkl"}

\* a pymatgen structure: lattice, site coordinates, species
Structures ==
    {[lattice |-> l, coords |-> 1, species |-> <<14, 8>>] : l \in 1..MaxLattice}

StdoutTargets == {"console", "logfile"}

ResultKeys ==
    {"final_structure", "a", "b", "c", "alpha", "beta", "gamma", "volume"}

EmptyObs ==
    [energies |-> <<>>, forces |-> <<>>, stresses |-> <<>>,
     atom_positions |-> <<>>, cells |-> <<>>]

NoAtoms == [positions |-> 0, cell |-> 0, numbers |-> <<>>]

VARIABLES
    pc,            \* position in __init__ / calc
    args,          \* the arguments of __init__ and calc
    opt_class,     \* self.opt_class
    atoms,         \* the ase Atoms built by calc
    obs,           \* the TrajectoryObserver's five lists
    attached,      \* interval the observer is attached with (0: not attached)
    nsteps,        \* the optimizer's step counter
    ticks,         \* observer calls triggered by the optimizer
    stdout,        \* sys.stdout
    old_target,    \* target saved by redirect_stdout
    caller_stdout, \* sys.stdout when the caller entered calc
    file,          \* blobs written to traj_file, in order
    conversions,   \* calls of AseAtomsAdaptor.get_atoms
    evals,         \* calculator evaluations
    error,         \* exception propagated to the caller ("None": none)
    result         \* {} or {the mapping returned by calc}

vars ==
    <<pc, args, opt_class, atoms, obs, attached, nsteps, ticks, stdout,
      old_target, caller_stdout, file, conversions, evals, error, result>>

\* --------------------------------------------------- TrajectoryObserver
\* calculator results for the current geometry
Energy(a) == <<"E", a.positions, a.cell>>
Forces(a) == <<"F", a.positions, a.cell>>
Stress(a) == <<"S", a.positions, a.cell>>

\* points of __call__ at which the calculator can raise:
\* 0 none, 1 get_potential_energy, 2 get_forces, 3 get_stress
FailPoints == 0..3

\* the atoms the observer reads: the object bound at construction, which is
\* the object the optimizer moves
ObservedAtoms(live, initial) == live

\* TrajectoryObserver.__call__: five appends in order; an error raised by
\* read k leaves the appends before it in place
Capture(o, a, failAt) ==
    LET done(k) == failAt = 0 \/ failAt > k
    IN [energies |-> IF done(1) THEN Append(o.energies, Energy(a))
                     ELSE o.energies,
        forces |-> IF done(2) THEN Append(o.forces, Forces(a))
                   ELSE o.forces,
        stresses |-> IF done(3) THEN Append(o.stresses, Stress(a))
                     ELSE o.stresses,
        atom_positions |-> IF done(4) THEN Append(o.atom_positions, a.positions)
                           ELSE o.atom_positions,
        cells |-> IF done(5) THEN Append(o.cells, a.cell)
                  ELSE o.cells]

\* calculator evaluations made by a capture that fails at failAt
CaptureEvals(failAt) == IF failAt = 0 THEN 3 ELSE failAt

\* TrajectoryObserver.__len__
Length(o) == Len(o.energies)

\* TrajectoryObserver.__getitem__ is defined at index i (0-based) when all
\* five lists have an element i
GetDefined(o, i) ==
    /\ i < Len(o.energies)
    /\ i < Len(o.forces)
    /\ i < Len(o.stresses)
    /\ i < Len(o.cells)
    /\ i < Len(o.atom_positions)

\* TrajectoryObserver.save: the dict that is pickled
SaveBlob(o, a) ==
    [energy |-> o.energies, forces |-> o.forces, stresses |-> o.stresses,
     atom_positions |-> o.atom_positions, cell |-> o.cells,
     atomic_number |-> a.numbers]

\* ------------------------------------------------------------ RelaxCalc
\* variant of ResolveOptimizer: None falls back to the default "FIRE"
ResolveOptimizer_DefaultsNone(optimizer) ==
    IF optimizer.type = "str" THEN [err |-> "None", cls |-> OPTIMIZERS_get(optimizer.val)]
    ELSE IF optimizer.type = "NoneType" THEN [err |-> "None", cls |-> OPTIMIZERS_get("FIRE")]
    ELSE [err |-> "None", cls |-> optimizer]

\* variant of ResolveOptimizer: every argument that is not None is looked up
\* in the registry, so an optimizer class is not passed through
ResolveOptimizer_StringsOnly(optimizer) ==
    IF optimizer.type = "NoneType" THEN [err |-> "ValueError", cls |-> PyNone]
    ELSE [err |-> "None", cls |-> OPTIMIZERS_get(optimizer.val)]

\* __init__, lines 114-119: the optimizer argument to self.opt_class, or
\* the ValueError
ResolveOptimizer(optimizer) ==
    IF optimizer.type = "str" THEN [err |-> "None", cls |-> OPTIMIZERS_get(optimizer.val)]
    ELSE IF optimizer.type = "NoneType" THEN [err |-> "ValueError", cls |-> PyNone]
    ELSE [err |-> "None", cls |-> optimizer]

\* self.opt_class(atoms): only a class can be called
Callable(c) == c.type = "class"

\* AseAtomsAdaptor.get_atoms / get_structure
get_atoms(s) == [positions |-> s.coords, cell |-> s.lattice, numbers |-> s.species]
get_structure(a) == [lattice |-> a.cell, coords |-> a.positions, species |-> a.numbers]

\* the mapping calc returns
ResultOf(a) ==
    LET fs == get_structure(a)
    IN [final_structure |-> fs, a |-> fs.lattice, b |-> fs.lattice,
        c |-> fs.lattice, alpha |-> 90, beta |-> 90, gamma |-> 90,
        volume |-> fs.lattice * fs.lattice * fs.lattice]

\* contextlib.redirect_stdout.__exit__: sys.stdout set back to the saved target
RedirectExit(saved, current) == saved

\* the optimizer's call_observers: an observer attached with a positive
\* interval fires when nsteps is a multiple of it
ShouldFire(n, interval) == interval > 0 /\ n % interval = 0

\* variant of Continue: the step cap is not tested
Continue_NoCap(n, steps, converged) == ~converged

\* the optimizer's loop condition: not converged and below the step cap
Continue(n, steps, converged) == ~converged /\ n < steps

\* variant of ShouldSave: the trajectory is saved whatever traj_file is
ShouldSave_Always(traj_file) == TRUE

\* line 148
ShouldSave(traj_file) == traj_file # "None"

\* pc values inside the with-block of calc
InWith == {"mkopt", "attach", "run", "loop", "final"}

\* variant of Raise: the error is noted and the method carries on
Raise_Continue(e) ==
    /\ error' = e
    /\ UNCHANGED <<pc, stdout>>

\* variant of Raise: the exception leaves calc without restoring stdout
Raise_NoRestore(e) ==
    /\ error' = e
    /\ pc' = "raised"
    /\ UNCHANGED stdout

\* an exception leaves calc: the with-block, when it is open, restores stdout
Raise(e) ==
    /\ error' = e
    /\ pc' = "raised"
    /\ stdout' = IF pc \in InWith THEN RedirectExit(old_target, stdout) ELSE stdout

Init ==
    /\ pc = "new"
    /\ args \in [optimizer : OptimizerArgs, steps : 0..MaxSteps,
                 interval : 1..MaxInterval, traj_file : TrajFiles,
                 structure : Structures]
    /\ opt_class = PyNone
    /\ atoms = NoAtoms
    /\ obs = EmptyObs
    /\ attached = 0
    /\ nsteps = 0
    /\ ticks = 0
    /\ caller_stdout \in StdoutTargets
    /\ stdout = caller_stdout
    /\ old_target = caller_stdout
    /\ file = <<>>
    /\ conversions = 0
    /\ evals = 0
    /\ error = "None"
    /\ result = {}

\* RelaxCalc.__init__
InitDriver ==
    /\ pc = "new"
    /\ LET r == ResolveOptimizer(args.optimizer)
       IN IF r.err # "None"
          THEN /\ error' = r.err
               /\ pc' = "ctor_raised"
               /\ UNCHANGED opt_class
          ELSE /\ opt_class' = r.cls
               /\ pc' = "ready"
               /\ UNCHANGED error
    /\ UNCHANGED <<args, atoms, obs, attached, nsteps, ticks, stdout,
                   old_target, caller_stdout, file, conversions, evals, result>>

\* calc, lines 137-139: convert the structure, bind the calculator
Convert ==
    /\ pc = "ready"
    /\ conversions' = conversions + 1
    /\ \E fails \in BOOLEAN :
         IF fails
         THEN /\ Raise("ConversionError")
              /\ UNCHANGED atoms
         ELSE /\ atoms' = get_atoms(args.structure)
              /\ pc' = "enter"
              /\ UNCHANGED <<error, stdout>>
    /\ UNCHANGED <<args, opt_class, obs, attached, nsteps, ticks, old_target,
                   caller_stdout, file, evals, result>>

\* calc, lines 140-143: redirect stdout, build the observer and the filter
EnterRedirect ==
    /\ pc = "enter"
    /\ old_target' = stdout
    /\ stdout' = "StringIO"
    /\ obs' = EmptyObs
    /\ pc' = "mkopt"
    /\ UNCHANGED <<args, opt_class, atoms, attached, nsteps, ticks,
                   caller_stdout, file, conversions, evals, error, result>>

\* calc, line 144: optimizer = self.opt_class(atoms)
MakeOptimizer ==
    /\ pc = "mkopt"
    /\ IF Callable(opt_class)
       THEN /\ pc' = "attach"
            /\ nsteps' = 0
            /\ UNCHANGED <<error, stdout>>
       ELSE /\ Raise("TypeError")
            /\ UNCHANGED nsteps
    /\ UNCHANGED <<args, opt_class, atoms, obs, attached, ticks, old_target,
                   caller_stdout, file, conversions, evals, result>>

\* calc, line 145: optimizer.attach(obs, interval=self.interval)
Attach ==
    /\ pc = "attach"
    /\ attached' = args.interval
    /\ pc' = "run"
    /\ UNCHANGED <<args, opt_class, atoms, obs, nsteps, ticks, stdout,
                   old_target, caller_stdout, file, conversions, evals, error, result>>

\* the observer called by the optimizer at step counter n on atoms a:
\* the new <<ticks, obs, evals, failed>>
Observe(n, a, failAt) ==
    IF ShouldFire(n, attached)
    THEN [ticks |-> ticks + 1,
          obs |-> Capture(obs, ObservedAtoms(a, get_atoms(args.structure)), failAt),
          evals |-> CaptureEvals(failAt),
          failed |-> failAt # 0]
    ELSE [ticks |-> ticks, obs |-> obs, evals |-> 0, failed |-> FALSE]

\* calc, line 146, optimizer.run up to its loop: the forces of the initial
\* geometry are evaluated and the observers are called at step 0
RunStart ==
    /\ pc = "run"
    /\ \E fails \in BOOLEAN, failAt \in FailPoints :
         IF fails
         THEN /\ Raise("CalculatorError")
              /\ evals' = evals + 1
              /\ UNCHANGED <<ticks, obs>>
         ELSE LET o == Observe(nsteps, atoms, failAt)
              IN /\ ticks' = o.ticks
                 /\ obs' = o.obs
                 /\ evals' = evals + 1 + o.evals
                 /\ IF o.failed
                    THEN Raise("CalculatorError")
                    ELSE /\ pc' = "loop"
                         /\ UNCHANGED <<error, stdout>>
    /\ UNCHANGED <<args, opt_class, atoms, attached, nsteps, old_target,
                   caller_stdout, file, conversions, result>>

\* calc, line 146, one iteration of the optimizer's loop: a step moves the
\* positions and (through the cell filter) possibly the cell, the counter
\* advances, the observers are called
OptStep ==
    /\ pc = "loop"
    /\ nsteps < StepCap
    /\ \E converged \in BOOLEAN : Continue(nsteps, args.steps, converged)
    /\ \E fault \in {"None", "CalculatorError", "OptimizerError"},
          dcell \in 0..1, failAt \in FailPoints :
         IF fault # "None"
         THEN /\ Raise(fault)
              /\ evals' = evals + 1
              /\ UNCHANGED <<atoms, nsteps, ticks, obs>>
         ELSE LET moved == [atoms EXCEPT !.positions = @ + 1, !.cell = @ + dcell]
                  o == Observe(nsteps + 1, moved, failAt)
              IN /\ atoms' = moved
                 /\ nsteps' = nsteps + 1
                 /\ ticks' = o.ticks
                 /\ obs' = o.obs
                 /\ evals' = evals + 1 + o.evals
                 /\ IF o.failed
                    THEN Raise("CalculatorError")
                    ELSE UNCHANGED <<pc, error, stdout>>
    /\ UNCHANGED <<args, opt_class, attached, old_target, caller_stdout, file,
                   conversions, result>>

\* calc, line 146: the loop ends, converged or at the step cap; run returns
RunEnd ==
    /\ pc = "loop"
    /\ \E converged \in BOOLEAN : ~Continue(nsteps, args.steps, converged)
    /\ pc' = "final"
    /\ UNCHANGED <<args, opt_class, atoms, obs, attached, nsteps, ticks, stdout,
                   old_target, caller_stdout, file, conversions, evals, error, result>>

\* variant of FinalCapture: no forced capture at the end of the run
FinalCapture_Skipped ==
    /\ pc = "final"
    /\ pc' = "save"
    /\ stdout' = RedirectExit(old_target, stdout)
    /\ UNCHANGED <<args, opt_class, atoms, obs, attached, nsteps, ticks,
                   old_target, caller_stdout, file, conversions, evals, error,
                   result>>

\* variant of FinalCapture: the forced capture is left out when the last
\* step already fired the observer
FinalCapture_Dedup ==
    /\ pc = "final"
    /\ \E failAt \in FailPoints :
         LET dup == ShouldFire(nsteps, attached)
             fa == IF dup THEN 0 ELSE failAt
         IN /\ obs' = IF dup THEN obs
                      ELSE Capture(obs, ObservedAtoms(atoms, get_atoms(args.structure)), fa)
            /\ evals' = IF dup THEN evals ELSE evals + CaptureEvals(fa)
            /\ IF fa # 0
               THEN Raise("CalculatorError")
               ELSE /\ pc' = "save"
                    /\ stdout' = RedirectExit(old_target, stdout)
                    /\ UNCHANGED error
    /\ UNCHANGED <<args, opt_class, atoms, attached, nsteps, ticks, old_target,
                   caller_stdout, file, conversions, result>>

\* calc, line 147 and the end of the with-block: the forced capture
FinalCapture ==
    /\ pc = "final"
    /\ \E failAt \in FailPoints :
         /\ obs' = Capture(obs, ObservedAtoms(atoms, get_atoms(args.structure)), failAt)
         /\ evals' = evals + CaptureEvals(failAt)
         /\ IF failAt # 0
            THEN Raise("CalculatorError")
            ELSE /\ pc' = "save"
                 /\ stdout' = RedirectExit(old_target, stdout)
                 /\ UNCHANGED error
    /\ UNCHANGED <<args, opt_class, atoms, attached, nsteps, ticks, old_target,
                   caller_stdout, file, conversions, result>>

\* calc, lines 148-149: obs.save(self.traj_file) when a file is given
Save ==
    /\ pc = "save"
    /\ IF ShouldSave(args.traj_file)
       THEN \E fails \in BOOLEAN :
              IF fails
              THEN /\ Raise("OSError")
                   /\ UNCHANGED file
              ELSE /\ file' = Append(file, SaveBlob(obs, atoms))
                   /\ pc' = "finish"
                   /\ UNCHANGED <<error, stdout>>
       ELSE /\ pc' = "finish"
            /\ UNCHANGED <<file, error, stdout>>
    /\ UNCHANGED <<args, opt_class, atoms, obs, attached, nsteps, ticks,
                   old_target, caller_stdout, conversions, evals, result>>

\* calc, lines 150-164: convert back and return the mapping
Finish ==
    /\ pc = "finish"
    /\ \E fails \in BOOLEAN :
         IF fails
         THEN /\ Raise("ConversionError")
              /\ UNCHANGED result
         ELSE /\ result' = {ResultOf(atoms)}
              /\ pc' = "returned"
              /\ UNCHANGED <<error, stdout>>
    /\ UNCHANGED <<args, opt_class, atoms, obs, attached, nsteps, ticks,
                   old_target, caller_stdout, file, conversions, evals>>

Next ==
    \/ InitDriver
    \/ Convert
    \/ EnterRedirect
    \/ MakeOptimizer
    \/ Attach
    \/ RunStart
    \/ OptStep
    \/ RunEnd
    \/ FinalCapture
    \/ Save
    \/ Finish

Spec == Init /\ [][Next]_vars

\* calc is sequential code: whatever step is enabled is eventually taken
FairSpec == Spec /\ WF_vars(Next)

\* ------------------------------------------------------------ properties
Done == {"returned", "raised", "ctor_raised"}

UnknownName(o) == o.type = "str" /\ o.val \notin OptimizerNames

\* errors raised by the collaborators (adaptor, calculator, optimizer, file)
CollaboratorErrors ==
    {"ConversionError", "CalculatorError", "OptimizerError", "OSError"}

\* the returned mapping is complete
CompleteResult ==
    \A r \in result : DOMAIN r = ResultKeys

\* C1: an optimizer name outside the OPTIMIZERS registry raises a
\* configuration error (ValueError), and no structure conversion is called
\* before that error.
C1_UnknownNameRejectedBeforeConversion ==
    UnknownName(args.optimizer) =>
        /\ conversions = 0
        /\ error \in {"None", "ValueError"}

\* C2: once the optimizer run and the forced capture have completed, the
\* record holds one snapshot per observer call the optimizer triggered plus
\* one; the run itself leaves exactly the triggered snapshots, and neither
\* saving nor returning changes the record.
C2_RecordLength ==
    /\ pc = "final" => Length(obs) = ticks
    /\ pc \in {"save", "finish", "returned"} => Length(obs) = ticks + 1

C2_Witness ==
    /\ pc = "returned"
    /\ args.steps >= 2
    /\ args.interval >= 2
    /\ nsteps = args.steps
    /\ ticks >= 2
    /\ Length(obs) = ticks + 1

\* C3: calc either returns the complete eight-key mapping or raises; once an
\* error is raised it is the caller's, nothing is returned, and no further
\* step, evaluation, capture or write is made.
C3_Outcome ==
    /\ error # "None" => pc \in {"raised", "ctor_raised"} /\ result = {}
    /\ pc \in {"raised", "ctor_raised"} => error # "None"
    /\ result # {} => pc = "returned" /\ CompleteResult /\ Cardinality(result) = 1
    /\ pc = "returned" => result # {}

C3_NoRetry ==
    error # "None" => UNCHANGED <<nsteps, evals, obs, file, result, error>>

C3_ReturnsOrRaises == [](C3_Outcome) /\ [][C3_NoRetry]_vars

C3_Witness ==
    /\ pc = "raised"
    /\ error = "CalculatorError"
    /\ nsteps >= 1
    /\ nsteps < args.steps
    /\ result = {}

\* C4: with traj_file None nothing is ever written; otherwise the record is
\* written at most once, as a whole, only after the run and the forced
\* capture have completed, exactly once when calc goes on to return, and
\* never when the run raised.
C4_PersistOrder ==
    /\ Len(file) <= 1
    /\ args.traj_file = "None" => file = <<>>
    /\ file # <<>> =>
          /\ pc \in {"finish", "returned", "raised"}
          /\ error \in {"None", "ConversionError"}
          /\ file[1] = SaveBlob(obs, atoms)
          /\ Len(file[1].energy) = ticks + 1
          /\ Len(file[1].cell) = ticks + 1
    /\ (pc \in {"finish", "returned"} /\ args.traj_file # "None") => Len(file) = 1
    /\ pc \notin {"finish", "returned", "raised"} => file = <<>>
    /\ error \in {"TypeError", "CalculatorError", "OptimizerError", "OSError"}
          => file = <<>>

C4_Witness ==
    /\ pc = "returned"
    /\ args.traj_file # "None"
    /\ nsteps >= 1
    /\ Len(file) = 1
    /\ Len(file[1].energy) = ticks + 1

\* C5: stdout is the discarded buffer exactly while calc is inside its
\* with-block, and it is the caller's target everywhere else, in particular
\* after calc returned and after calc raised.
C5_StdoutRestored ==
    /\ pc \in InWith => stdout = "StringIO"
    /\ pc \notin InWith => stdout = caller_stdout

C5_Witness ==
    /\ pc = "raised"
    /\ error \in {"CalculatorError", "OptimizerError"}
    /\ nsteps >= 1
    /\ stdout = caller_stdout

\* C6: the run takes at most steps optimizer steps, calc always ends, and it
\* ends by raising only when a collaborator raised or the optimizer could
\* not be built: otherwise it returns, also when the step cap was reached.
C6_Terminates ==
    /\ [](nsteps <= args.steps)
    /\ [](pc \in {"raised", "ctor_raised"} =>
             \/ error \in CollaboratorErrors
             \/ error = "TypeError" /\ ~Callable(opt_class)
             \/ error = "ValueError" /\ args.optimizer = PyNone)
    /\ <>(pc \in Done)

C6_Witness ==
    /\ pc = "returned"
    /\ error = "None"
    /\ args.steps = MaxSteps
    /\ nsteps = args.steps

C8_NoneRejected ==
    args.optimizer = PyNone =>
        /\ pc \in {"new", "ctor_raised"}
        /\ pc = "ctor_raised" => error = "ValueError"
        /\ opt_class = PyNone
        /\ conversions = 0
        /\ evals = 0
        /\ nsteps = 0

C8_Witness ==
    /\ args.optimizer = PyNone
    /\ pc = "ctor_raised"
    /\ error = "ValueError"

\* C9: after the forced capture the last snapshot of the record holds the
\* positions and cell of the relaxed atoms, the geometry returned as
\* final_structure, whether or not the last step fired the observer.
C9_LastSnapshotIsFinal ==
    /\ pc \in {"save", "finish", "returned"} =>
          /\ Length(obs) >= 1
          /\ obs.atom_positions[Len(obs.atom_positions)] = atoms.positions
          /\ obs.cells[Len(obs.cells)] = atoms.cell
    /\ pc = "returned" =>
          \A r \in result :
             /\ r.final_structure.coords = obs.atom_positions[Len(obs.atom_positions)]
             /\ r.final_structure.lattice = obs.cells[Len(obs.cells)]

C9_Witness ==
    /\ pc = "returned"
    /\ nsteps >= 1
    /\ ~ShouldFire(nsteps, attached)
    /\ \E r \in result :
          r.final_structure.coords = obs.atom_positions[Len(obs.atom_positions)]

\* C10: the five lists of the recorder always have the same length, which is
\* length(), so get(i) is defined exactly for 0 <= i < length().
C10_ParallelLists ==
    /\ Len(obs.forces) = Length(obs)
    /\ Len(obs.stresses) = Length(obs)
    /\ Len(obs.atom_positions) = Length(obs)
    /\ Len(obs.cells) = Length(obs)
    /\ \A i \in 0..Length(obs) : GetDefined(obs, i) <=> i < Length(obs)

====
